---- MODULE Spec2Model ----
(***************************************************************************)
(* vidar: loading of per-environment property files (common.env, dev.env,  *)
(* ...) into an Environment.  The model follows src/src/lib.rs: the Kind   *)
(* taxonomy and its string mapping, Config and its builder, the line       *)
(* parser read_props_file and the two entry points                         *)
(* Environment::try_from(&str) and Environment::try_from(Config).          *)
(* The directory the loads read is built by the test lifecycle             *)
(* (src/tests/lifecycle/mod.rs).                                           *)
(*                                                                         *)
(* Strings that the code only compares (kind names, file names) are TLA+   *)
(* strings.  Lines of a property file are sequences of one-character       *)
(* strings, so that starts_with and split('=') are computed character by   *)
(* character; keys and values are such sequences too.                      *)
(***************************************************************************)
EXTENDS Naturals, Sequences, FiniteSets, TLC

VARIABLES
    fs,       \* the current directory: file name -> Missing or File(lines)
    osenv,    \* the variables of the process environment
    pc,       \* "idle": no call made; "done": a try_from call has returned
    request,  \* the call made: the entry point and its argument's origin
    config,   \* the Config given to try_from(Config), None otherwise
    result,   \* the Result<Environment> the call returned
    opened    \* the read_props_file calls of the load, in order

vars == <<fs, osenv, pc, request, config, result, opened>>

----------------------------------------------------------------------------
(* Bounds of the model.                                                    *)

\* Total number of lines held by the files of the directory.
MaxLines == 2

----------------------------------------------------------------------------
(* Option and Result values.                                               *)

None == [some |-> FALSE]

Some(v) == [some |-> TRUE, val |-> v]

IsSomeTrue(o) == o.some /\ o.val = TRUE

Ok(v) == [ok |-> TRUE, val |-> v]

Err(e) == [ok |-> FALSE, err |-> e]

\* error.rs: the error kinds a load can end with.
InvalidKind(name) == [kind |-> "InvalidKind", name |-> name]

InvalidProperty == [kind |-> "InvalidProperty"]

Io == [kind |-> "Io"]

----------------------------------------------------------------------------
(* Kind and its string mapping.                                            *)

Kinds == {"Common", "Development", "Test", "Integration", "Staging", "Production"}

ENV_SUFFIX == ".env"

\* impl TryFrom<&str> for Kind: an exact match on the six tokens.
KindTryFrom(name) ==
    CASE name = "common" -> Ok("Common")
      [] name = "dev"    -> Ok("Development")
      [] name = "test"   -> Ok("Test")
      [] name = "int"    -> Ok("Integration")
      [] name = "stage"  -> Ok("Staging")
      [] name = "prod"   -> Ok("Production")
      [] OTHER           -> Err(InvalidKind(name))

\* KindToString with the token of Staging spelled out.
KindToString_Staging(kind) ==
    CASE kind = "Common"      -> "common"
      [] kind = "Development" -> "dev"
      [] kind = "Test"        -> "test"
      [] kind = "Integration" -> "int"
      [] kind = "Staging"     -> "staging"
      [] kind = "Production"  -> "prod"

\* impl From<Kind> for String.
KindToString(kind) ==
    CASE kind = "Common"      -> "common"
      [] kind = "Development" -> "dev"
      [] kind = "Test"        -> "test"
      [] kind = "Integration" -> "int"
      [] kind = "Staging"     -> "stage"
      [] kind = "Production"  -> "prod"

----------------------------------------------------------------------------
(* Config, Config::new, Default and the derived ConfigBuilder.             *)

\* Config::new leaving common unset.
ConfigNew_NoCommon(kind) ==
    [kind |-> kind, common |-> None, recursive |-> None,
     base_dir |-> None, comments |-> None, comment_char |-> None]

\* Config::new(kind)
ConfigNew(kind) ==
    [kind |-> kind, common |-> Some(TRUE), recursive |-> None,
     base_dir |-> None, comments |-> None, comment_char |-> None]

\* Default for the Development kind.
ConfigDefault_Development == ConfigNew("Development")

\* impl Default for Config
ConfigDefault == ConfigNew("Common")

\* config.set_kind(kind)
SetKind(cfg, kind) == [cfg EXCEPT !.kind = kind]

\* A ConfigBuilder holds, per field, None (setter not called) or Some(value).
\* #[builder(default)] on the struct: build() takes every unset field from
\* Config::default().
BuilderField(set, dflt) == IF set.some THEN set.val ELSE dflt

ConfigBuilderBuild(b) ==
    [kind         |-> BuilderField(b.kind, ConfigDefault.kind),
     common       |-> BuilderField(b.common, ConfigDefault.common),
     recursive    |-> BuilderField(b.recursive, ConfigDefault.recursive),
     base_dir     |-> BuilderField(b.base_dir, ConfigDefault.base_dir),
     comments     |-> BuilderField(b.comments, ConfigDefault.comments),
     comment_char |-> BuilderField(b.comment_char, ConfigDefault.comment_char)]

\* ConfigBuilder::default(): no setter called.
ConfigBuilderDefault ==
    [kind |-> None, common |-> None, recursive |-> None,
     base_dir |-> None, comments |-> None, comment_char |-> None]

----------------------------------------------------------------------------
(* The directory: file name -> Missing or the file's lines.                *)

Missing == [exists |-> FALSE]

File(lines) == [exists |-> TRUE, lines |-> lines]

FileName(kind) == KindToString(kind) \o ENV_SUFFIX

FileNames == {FileName(k) : k \in Kinds}

\* A line that is not valid UTF-8: BufRead::lines yields Err for it.
InvalidUtf8 == <<"\\xFF">>

\* Outcome of one item of BufReader::lines().
LineRes(line) == IF line = InvalidUtf8 THEN Err(Io) ELSE Ok(line)

----------------------------------------------------------------------------
(* read_props_file.                                                        *)

\* str::starts_with(char)
StartsWith(line, c) == Len(line) > 0 /\ line[1] = c

\* splitn(2, sep): the line is cut at the first separator only.
RECURSIVE Split_AtFirst(_, _)
Split_AtFirst(s, sep) ==
    IF s = <<>> THEN << <<>> >>
    ELSE IF Head(s) = sep THEN << <<>>, Tail(s) >>
    ELSE LET rest == Split_AtFirst(Tail(s), sep)
         IN  << <<Head(s)>> \o Head(rest) >> \o Tail(rest)

\* str::split(sep) collected into a Vec: n separators give n + 1 fields, the
\* empty string gives one empty field.
RECURSIVE Split(_, _)
Split(s, sep) ==
    IF s = <<>> THEN << <<>> >>
    ELSE LET rest == Split(Tail(s), sep)
         IN  IF Head(s) = sep
             THEN << <<>> >> \o rest
             ELSE << <<Head(s)>> \o Head(rest) >> \o Tail(rest)

EmptyMap == [k \in {} |-> <<>>]

\* HashMap::insert: adds the key or overwrites its value.
Insert(props, key, value) ==
    [k \in DOMAIN props \cup {key} |-> IF k = key THEN value ELSE props[k]]

\* lib.rs 157-163: the line is skipped as a comment.
IsComment(cfg, line) ==
    /\ IsSomeTrue(cfg.comments)
    /\ cfg.comment_char.some
    /\ StartsWith(line, cfg.comment_char.val)

\* One record per item of common_reader.lines() the loop consumed: the item,
\* what the loop body did with it, and props after it.
Step(line, did, props) == [line |-> line, did |-> did, props |-> props]

\* The loop over common_reader.lines(); steps collects the items consumed.
RECURSIVE ReadLines(_, _, _, _)
ReadLines(cfg, lines, props, steps) ==
    IF lines = <<>> THEN [res |-> Ok("unit"), props |-> props, steps |-> steps]
    ELSE LET line_res == LineRes(Head(lines))
         IN  IF ~line_res.ok
             THEN [res |-> Err(line_res.err), props |-> props,
                   steps |-> Append(steps, Step(Head(lines), "io", props))]
             ELSE LET line == line_res.val
                      kv == Split(line, "=")
                      inserted == Insert(props, kv[1], kv[2])
                  IN  IF IsComment(cfg, line)
                      THEN ReadLines(cfg, Tail(lines), props,
                                     Append(steps, Step(line, "skip", props)))
                      ELSE IF Len(kv) # 2
                      THEN [res |-> Err(InvalidProperty), props |-> props,
                            steps |-> Append(steps, Step(line, "invalid", props))]
                      ELSE ReadLines(cfg, Tail(lines), inserted,
                                     Append(steps, Step(line, "insert", inserted)))

\* read_props_file taking a missing file for an empty one.
ReadPropsFile_MissingOk(dir, cfg, props) ==
    LET file_path == FileName(cfg.kind)
        lines == IF dir[file_path].exists THEN dir[file_path].lines ELSE <<>>
        r == ReadLines(cfg, lines, props, <<>>)
    IN  [res |-> r.res, props |-> r.props,
         access |-> [path |-> file_path, found |-> dir[file_path].exists,
                     res |-> r.res, before |-> props, steps |-> r.steps]]

\* read_props_file(config, props) in directory dir: the result, the props
\* after the call, and the record of the file access (the path opened,
\* whether File::open found it, the props on entry, the lines consumed).
ReadPropsFile(dir, cfg, props) ==
    LET file_path == FileName(cfg.kind)
    IN  IF ~dir[file_path].exists
        THEN [res |-> Err(Io), props |-> props,
              access |-> [path |-> file_path, found |-> FALSE, res |-> Err(Io),
                          before |-> props, steps |-> <<>>]]
        ELSE LET r == ReadLines(cfg, dir[file_path].lines, props, <<>>)
             IN  [res |-> r.res, props |-> r.props,
                  access |-> [path |-> file_path, found |-> TRUE, res |-> r.res,
                              before |-> props, steps |-> r.steps]]

----------------------------------------------------------------------------
(* The two entry points.  Each returns the Result and the file accesses    *)
(* made, in order.                                                         *)

Environment(current, props) == [current |-> current, props |-> props]

\* try_from(&str) reading the common file before it validates the name.
EnvironmentTryFromStr_ReadFirst(dir, name) ==
    LET r1 == ReadPropsFile(dir, ConfigDefault, EmptyMap)
        current == KindTryFrom(name)
    IN  IF ~r1.res.ok
        THEN [result |-> Err(r1.res.err), opened |-> <<r1.access>>]
        ELSE IF ~current.ok
        THEN [result |-> Err(current.err), opened |-> <<r1.access>>]
        ELSE
        LET r2 == ReadPropsFile(dir, SetKind(ConfigDefault, current.val), r1.props)
        IN  IF ~r2.res.ok
            THEN [result |-> Err(r2.res.err), opened |-> <<r1.access, r2.access>>]
            ELSE [result |-> Ok(Environment(current.val, r2.props)),
                  opened |-> <<r1.access, r2.access>>]

\* impl TryFrom<&str> for Environment
EnvironmentTryFromStr(dir, name) ==
    LET props0 == EmptyMap
        current == KindTryFrom(name)
    IN  IF ~current.ok THEN [result |-> Err(current.err), opened |-> <<>>]
        ELSE
        LET config0 == ConfigDefault
            r1 == ReadPropsFile(dir, config0, props0)
        IN  IF ~r1.res.ok
            THEN [result |-> Err(r1.res.err), opened |-> <<r1.access>>]
            ELSE
            LET config1 == SetKind(config0, current.val)
                r2 == ReadPropsFile(dir, config1, r1.props)
            IN  IF ~r2.res.ok
                THEN [result |-> Err(r2.res.err),
                      opened |-> <<r1.access, r2.access>>]
                ELSE [result |-> Ok(Environment(current.val, r2.props)),
                      opened |-> <<r1.access, r2.access>>]

\* try_from(Config) going on to the kind file when the common file failed.
EnvironmentTryFromConfig_IgnoreCommonErr(dir, cfg) ==
    LET with_common == IsSomeTrue(cfg.common)
        r1 == IF with_common
              THEN ReadPropsFile(dir, ConfigDefault, EmptyMap)
              ELSE [res |-> Ok("unit"), props |-> EmptyMap]
        log1 == IF with_common THEN <<r1.access>> ELSE <<>>
        r2 == ReadPropsFile(dir, cfg, r1.props)
    IN  IF ~r2.res.ok
        THEN [result |-> Err(r2.res.err), opened |-> Append(log1, r2.access)]
        ELSE [result |-> Ok(Environment(cfg.kind, r2.props)),
              opened |-> Append(log1, r2.access)]

\* impl TryFrom<Config> for Environment
EnvironmentTryFromConfig(dir, cfg) ==
    LET props0 == EmptyMap
        with_common == IsSomeTrue(cfg.common)
        common_config == ConfigDefault
        r1 == IF with_common
              THEN ReadPropsFile(dir, common_config, props0)
              ELSE [res |-> Ok("unit"), props |-> props0]
        log1 == IF with_common THEN <<r1.access>> ELSE <<>>
    IN  IF ~r1.res.ok THEN [result |-> Err(r1.res.err), opened |-> log1]
        ELSE
        LET r2 == ReadPropsFile(dir, cfg, r1.props)
        IN  IF ~r2.res.ok
            THEN [result |-> Err(r2.res.err),
                  opened |-> Append(log1, r2.access)]
            ELSE [result |-> Ok(Environment(cfg.kind, r2.props)),
                  opened |-> Append(log1, r2.access)]

----------------------------------------------------------------------------
(* Inputs of the model.                                                    *)

\* Lines the files are made of: key=value lines (same key with two values,
\* a key and value with blanks), a '#' line with and without '=', the empty
\* line, a line with two '=', and a line that cannot be decoded.
Lines ==
    { <<"a", "=", "1">>, <<"a", "=", "2">>, <<" ", "a", "=", " ", "1">>,
      <<"#", "a", "=", "3">>, <<"#">>, <<>>, <<"a", "=", "1", "=", "2">>,
      InvalidUtf8 }

Contents == UNION {[1..n -> Lines] : n \in 0..MaxLines}

\* Kinds whose file the directory may hold; the file of any other kind is
\* always missing.
DirKinds == {"Common", "Development"}

\* Names given to Environment::try_from(&str): the six tokens, and strings
\* that differ from a token by case, by padding, or altogether.
Tokens == {"common", "dev", "test", "int", "stage", "prod"}

Names == Tokens \cup {"Dev", " dev", "", "blah"}

\* Builders: a kind or none, common switched off or untouched, comments
\* switched on or untouched, comment character '#' or untouched.
BuilderKinds == {"Common", "Development", "Test"}

Builders ==
    [kind : {None} \cup {Some(k) : k \in BuilderKinds},
     common : {None, Some(Some(FALSE))},
     recursive : {None},
     base_dir : {None},
     comments : {None, Some(Some(TRUE))},
     comment_char : {None, Some(Some("#"))}]

\* The variables of the process environment (std::env::vars()).
ProcessEnv == (<<"a">> :> <<"0">>) @@ (<<"H">> :> <<"/">>)

RECURSIVE SumLines(_, _)
SumLines(dir, names) ==
    IF names = {} THEN 0
    ELSE LET n == CHOOSE x \in names : TRUE
         IN  (IF dir[n].exists THEN Len(dir[n].lines) ELSE 0)
             + SumLines(dir, names \ {n})

TotalLines(dir) == SumLines(dir, DOMAIN dir)

----------------------------------------------------------------------------
(* The state machine.                                                      *)

NoRequest == [entry |-> "none"]

Init ==
    /\ fs = [n \in FileNames |-> Missing]
    /\ osenv = ProcessEnv
    /\ pc = "idle"
    /\ request = NoRequest
    /\ config = None
    /\ result = None
    /\ opened = <<>>

\* lifecycle::create_file: File::create truncates, write_all writes contents.
CreateFile(kind, contents) ==
    /\ pc = "idle"
    /\ LET dir == [fs EXCEPT ![FileName(kind)] = File(contents)]
       IN  /\ dir # fs
           /\ TotalLines(dir) <= MaxLines
           /\ fs' = dir
    /\ UNCHANGED <<osenv, pc, request, config, result, opened>>

\* lifecycle::teardown: fs::remove_dir_all.
Teardown ==
    /\ pc = "idle"
    /\ fs # [n \in FileNames |-> Missing]
    /\ fs' = [n \in FileNames |-> Missing]
    /\ UNCHANGED <<osenv, pc, request, config, result, opened>>

\* Environment::try_from(name)
TryFromStr(name) ==
    /\ pc = "idle"
    /\ LET r == EnvironmentTryFromStr(fs, name)
       IN  /\ result' = Some(r.result)
           /\ opened' = r.opened
    /\ request' = [entry |-> "str", name |-> name]
    /\ config' = None
    /\ pc' = "done"
    /\ UNCHANGED <<fs, osenv>>

\* Environment::try_from(cfg) for a Config the caller built as `how` says;
\* seed records whether the caller wants the process environment seeded.
LoadConfig(how, cfg, seed) ==
    /\ pc = "idle"
    /\ LET r == EnvironmentTryFromConfig(fs, cfg)
       IN  /\ result' = Some(r.result)
           /\ opened' = r.opened
    /\ request' = [how EXCEPT !.seed_from_os_env = seed]
    /\ config' = Some(cfg)
    /\ pc' = "done"
    /\ UNCHANGED <<fs, osenv>>

\* Config::new(kind) handed to Environment::try_from.
TryFromConfigNew(kind, seed) ==
    LoadConfig([entry |-> "new", kind |-> kind, seed_from_os_env |-> FALSE],
               ConfigNew(kind), seed)

\* Config::default() handed to Environment::try_from.
TryFromConfigDefault(seed) ==
    LoadConfig([entry |-> "default", seed_from_os_env |-> FALSE],
               ConfigDefault, seed)

\* A ConfigBuilder's build() handed to Environment::try_from.
TryFromConfigBuilder(b, seed) ==
    LoadConfig([entry |-> "builder", builder |-> b, seed_from_os_env |-> FALSE],
               ConfigBuilderBuild(b), seed)

\* The caller drops the Result; the next call starts afresh.
Return ==
    /\ pc = "done"
    /\ pc' = "idle"
    /\ request' = NoRequest
    /\ config' = None
    /\ result' = None
    /\ opened' = <<>>
    /\ UNCHANGED <<fs, osenv>>

Next ==
    \/ \E kind \in DirKinds, contents \in Contents : CreateFile(kind, contents)
    \/ Teardown
    \/ \E name \in Names : TryFromStr(name)
    \/ \E kind \in Kinds, seed \in BOOLEAN : TryFromConfigNew(kind, seed)
    \/ \E seed \in BOOLEAN : TryFromConfigDefault(seed)
    \/ \E b \in Builders, seed \in BOOLEAN : TryFromConfigBuilder(b, seed)
    \/ Return

Spec == Init /\ [][Next]_vars

----------------------------------------------------------------------------
(* Vocabulary of the properties.  The text of a line is read here by       *)
(* counting and locating '=' directly, not through Split.                  *)

EqPositions(line) == {i \in 1..Len(line) : line[i] = "="}

EqCount(line) == Cardinality(EqPositions(line))

EqPos(line) == CHOOSE i \in EqPositions(line) : TRUE

\* The text before and after the single '=' of a line.
KeyOf(line) == SubSeq(line, 1, EqPos(line) - 1)

ValueOf(line) == SubSeq(line, EqPos(line) + 1, Len(line))

\* The map m with key k bound to v, every other key as in m.
Bind(m, k, v) == [x \in DOMAIN m \cup {k} |-> IF x = k THEN v ELSE m[x]]

Loaded == pc = "done"

StrLoad == Loaded /\ request.entry = "str"

ConfigLoad == Loaded /\ request.entry \in {"new", "default", "builder"}

\* A load that got as far as reading files: its kind is valid.
KindLoad == ConfigLoad \/ (StrLoad /\ request.name \in Tokens)

LoadKind == IF config.some THEN config.val.kind ELSE KindTryFrom(request.name).val

\* The common file is part of the load.
CommonEnabled == IF config.some THEN config.val.common = Some(TRUE) ELSE TRUE

\* The load's configuration enables comments with a comment character.
CommentsOn ==
    /\ config.some
    /\ config.val.comments = Some(TRUE)
    /\ config.val.comment_char.some

\* The line is a comment under the load's configuration.
CommentLine(line) ==
    /\ CommentsOn
    /\ line # <<>>
    /\ Head(line) = config.val.comment_char.val

Res == result.val

CommonFile == fs["common.env"]

KindFile == fs[FileName(LoadKind)]

\* The lines of a file that define a key: not comments, exactly one '='.
Defining(lines) ==
    {i \in 1..Len(lines) :
        /\ lines[i] # InvalidUtf8
        /\ ~CommentLine(lines[i])
        /\ EqCount(lines[i]) = 1}

DefinedKeys(lines) == {KeyOf(lines[i]) : i \in Defining(lines)}

\* The value of the last line of lines defining key k.
LastValue(lines, k) ==
    LET at == {i \in Defining(lines) : KeyOf(lines[i]) = k}
        last == CHOOSE i \in at : \A j \in at : j <= i
    IN  ValueOf(lines[last])

\* Props before step i of a file access.
Before(a, i) == IF i = 1 THEN a.before ELSE a.steps[i - 1].props

----------------------------------------------------------------------------
(* C1: for each of the six tokens, Kind::try_from followed by the          *)
(* conversion back to a string gives the token again, and no other token   *)
(* gives the same Kind; for every other name (also one differing only by   *)
(* case or padding) Kind::try_from, and so Environment::try_from(name),    *)
(* fails with InvalidKind carrying that name.                              *)
C1_KindRoundTrip ==
    StrLoad =>
        LET n == request.name
            k == KindTryFrom(n)
        IN  IF n \in Tokens
            THEN /\ k.ok
                 /\ KindToString(k.val) = n
                 /\ \A t \in Tokens \ {n} : KindTryFrom(t) # k
                 /\ Res.ok => KindToString(Res.val.current) = n
                 /\ ~Res.ok => Res.err.kind # "InvalidKind"
            ELSE /\ k = Err([kind |-> "InvalidKind", name |-> n])
                 /\ Res = k

C1_Witness ==
    /\ StrLoad
    /\ request.name = "dev"
    /\ Res.ok
    /\ Res.val.current = "Development"

(* C2: in a load with the common file enabled that returns an Environment, *)
(* props maps every key defined in the kind file to the value of the last  *)
(* line defining it there, every other key defined in the common file to   *)
(* the value of the last line defining it there, and holds no other key.   *)
C2_MergePrecedence ==
    (KindLoad /\ CommonEnabled /\ Res.ok) =>
        LET c == CommonFile.lines
            s == KindFile.lines
            props == Res.val.props
        IN  /\ DOMAIN props = DefinedKeys(c) \cup DefinedKeys(s)
            /\ \A k \in DOMAIN props :
                   props[k] = IF k \in DefinedKeys(s) THEN LastValue(s, k)
                              ELSE LastValue(c, k)

(* C3: every line read that is not a comment of the load, and every line   *)
(* the parser did not skip, is handled thus: a line holding exactly one '=' *)
(* binds the text before the '=' to the text after it, untrimmed, in       *)
(* props, leaving the other keys as they were; every such line with no '=' *)
(* (the empty line too) or with two or more ends the load with             *)
(* InvalidProperty.                                                        *)
C3_PerLineRule ==
    Loaded =>
        \A n \in 1..Len(opened) :
            LET a == opened[n]
            IN  \A i \in 1..Len(a.steps) :
                    LET st == a.steps[i]
                    IN  /\ st.line = fs[a.path].lines[i]
                        /\ (st.line # InvalidUtf8
                            /\ (~CommentLine(st.line) \/ st.did # "skip")) =>
                               IF EqCount(st.line) = 1
                               THEN /\ st.did = "insert"
                                    /\ st.props = Bind(Before(a, i), KeyOf(st.line),
                                                       ValueOf(st.line))
                               ELSE /\ st.did = "invalid"
                                    /\ i = Len(a.steps)
                                    /\ n = Len(opened)
                                    /\ Res = Err([kind |-> "InvalidProperty"])

\* A line overwrote the value an earlier line had given its key.
C3_Witness ==
    /\ Loaded
    /\ \E n \in 1..Len(opened) :
           \E i \in 1..Len(opened[n].steps) :
               LET a == opened[n]
                   st == a.steps[i]
               IN  /\ st.did = "insert"
                   /\ EqCount(st.line) = 1
                   /\ KeyOf(st.line) \in DOMAIN Before(a, i)
                   /\ Before(a, i)[KeyOf(st.line)] # ValueOf(st.line)

(* C4: in a load whose configuration enables comments with character c,    *)
(* every line starting with c is skipped, in the common file as in the     *)
(* kind file: it changes no key and does not end the load.                 *)
C4_CommentsInEveryFile ==
    (ConfigLoad /\ CommentsOn) =>
        \A n \in 1..Len(opened) :
            \A i \in 1..Len(opened[n].steps) :
                LET a == opened[n]
                    st == a.steps[i]
                IN  CommentLine(st.line) =>
                        /\ st.did = "skip"
                        /\ st.props = Before(a, i)

(* C5 as stated: a load whose kind file does not exist fails with an I/O   *)
(* error, whatever the common file holds.                                  *)
C5_MissingKindFileIo ==
    (KindLoad /\ ~KindFile.exists) => Res = Err([kind |-> "Io"])

\* The common file is read first and holds a line that is no key=value.
CommonMalformed ==
    /\ CommonEnabled
    /\ CommonFile.exists
    /\ \E i \in 1..Len(CommonFile.lines) : EqCount(CommonFile.lines[i]) # 1

(* C5 amended: a load whose kind file does not exist returns no            *)
(* Environment; its error is an I/O error, unless the common file, read    *)
(* first, fails to parse: then the load ends with InvalidProperty and the  *)
(* kind file is never opened.  With a common file that is disabled,        *)
(* missing or made of key=value lines only, the error is the I/O error.    *)
C5_MissingKindFileFails ==
    (KindLoad /\ ~KindFile.exists) =>
        /\ ~Res.ok
        /\ \/ Res = Err([kind |-> "Io"])
           \/ /\ Res = Err([kind |-> "InvalidProperty"])
              /\ CommonMalformed
              /\ Len(opened) = 1
              /\ opened[1].path = "common.env"
        /\ ~CommonMalformed => Res = Err([kind |-> "Io"])

C5_Witness ==
    /\ KindLoad
    /\ ~KindFile.exists
    /\ CommonEnabled
    /\ CommonFile.exists
    /\ Len(CommonFile.lines) > 0
    /\ ~CommonMalformed
    /\ Len(opened) = 2
    /\ Res = Err([kind |-> "Io"])

----------------------------------------------------------------------------
\* The files a load is to read, in order.
ExpectedPaths ==
    (IF CommonEnabled THEN <<"common.env">> ELSE <<>>) \o <<FileName(LoadKind)>>

\* The file was found and every one of its lines was consumed without error.
ReadToEnd(a) ==
    /\ a.found
    /\ a.res.ok
    /\ Len(a.steps) = Len(fs[a.path].lines)
    /\ \A i \in 1..Len(a.steps) : a.steps[i].did \in {"skip", "insert"}

\* The error a file access that was not read to its end stopped with.
StepError(a) ==
    IF ~a.found THEN [kind |-> "Io"]
    ELSE LET last == a.steps[Len(a.steps)]
         IN  IF last.did = "io" THEN [kind |-> "Io"]
             ELSE [kind |-> "InvalidProperty"]

(* C6: a load reads the common file (when enabled) and then the kind file, *)
(* in that order; every file before the last one opened was read to its    *)
(* end without error; if the last file opened failed, the load ends with   *)
(* that file's error and opens nothing after it; an Environment is         *)
(* returned exactly when every file of the load was read to its end, and   *)
(* it holds the load's kind and the props after the last file.             *)
C6_FailFast ==
    KindLoad =>
        LET n == Len(opened)
            e == ExpectedPaths
        IN  /\ 1 <= n /\ n <= Len(e)
            /\ \A i \in 1..n : opened[i].path = e[i]
            /\ \A i \in 1..(n - 1) : ReadToEnd(opened[i])
            /\ opened[1].before = EmptyMap
            /\ IF ReadToEnd(opened[n])
               THEN /\ n = Len(e)
                    /\ Res.ok
                    /\ Res.val.current = LoadKind
                    /\ Res.val.props =
                           IF opened[n].steps = <<>> THEN opened[n].before
                           ELSE opened[n].steps[Len(opened[n].steps)].props
               ELSE /\ ~Res.ok
                    /\ Res.err = StepError(opened[n])
                    /\ opened[n].found =>
                           /\ opened[n].steps # <<>>
                           /\ \A i \in 1..(Len(opened[n].steps) - 1) :
                                  opened[n].steps[i].did \in {"skip", "insert"}

\* The common file failed to parse and the kind file, though present, was
\* not opened.
C6_Witness ==
    /\ ConfigLoad
    /\ CommonEnabled
    /\ LoadKind = "Development"
    /\ KindFile.exists
    /\ Len(opened) = 1
    /\ opened[1].path = "common.env"
    /\ Res = Err([kind |-> "InvalidProperty"])

\* The configuration was constructed with no explicit override.
NoOverrides ==
    /\ ConfigLoad
    /\ \/ request.entry = "default"
       \/ request.entry = "builder" /\ request.builder = ConfigBuilderDefault

(* C7 as stated: a configuration constructed with no override has kind     *)
(* Development, every boolean option off and comment character '#'.        *)
C7_DefaultsAsStated ==
    NoOverrides =>
        /\ config.val.kind = "Development"
        /\ config.val.common # Some(TRUE)
        /\ config.val.comments # Some(TRUE)
        /\ config.val.recursive # Some(TRUE)
        /\ config.val.comment_char = Some("#")

(* C7 amended: a configuration constructed with no override has kind       *)
(* Common, the common file enabled (Some(true)), comments and recursive    *)
(* unset, and no comment character and no base directory; a load with it   *)
(* opens common.env only and skips no line.                                *)
C7_Defaults ==
    NoOverrides =>
        /\ config.val.kind = "Common"
        /\ config.val.common = Some(TRUE)
        /\ config.val.comments = None
        /\ config.val.recursive = None
        /\ config.val.comment_char = None
        /\ config.val.base_dir = None
        /\ \A n \in 1..Len(opened) :
               /\ opened[n].path = "common.env"
               /\ \A i \in 1..Len(opened[n].steps) : opened[n].steps[i].did # "skip"
        /\ Res.ok => Len(opened) = 2 /\ Res.val.current = "Common"

C7_Witness ==
    /\ NoOverrides
    /\ request.entry = "builder"
    /\ Res.ok
    /\ \E k \in DOMAIN Res.val.props : k # <<>> /\ Head(k) = "#"

(* C8: when the caller asks for seeding from the OS environment, the       *)
(* Environment returned holds every OS variable; one whose key neither     *)
(* file defines keeps its OS value.                                        *)
C8_OsEnvSeeding ==
    (ConfigLoad /\ request.seed_from_os_env /\ Res.ok) =>
        \A k \in DOMAIN osenv :
            /\ k \in DOMAIN Res.val.props
            /\ (k \notin DefinedKeys(KindFile.lines)
                /\ (CommonEnabled => k \notin DefinedKeys(CommonFile.lines)))
               => Res.val.props[k] = osenv[k]

(* C9: Environment::try_from(name) with a name that is none of the six     *)
(* tokens fails with InvalidKind carrying the name and opens no file,      *)
(* whatever the directory holds.                                           *)
C9_KindBeforeFiles ==
    (StrLoad /\ request.name \notin Tokens) =>
        /\ Res = Err([kind |-> "InvalidKind", name |-> request.name])
        /\ opened = <<>>

\* An invalid name given while the common file is missing.
C9_Witness ==
    /\ StrLoad
    /\ request.name = "Dev"
    /\ ~CommonFile.exists
    /\ fs["dev.env"].exists
    /\ Res.err.kind = "InvalidKind"

(* C10: for each token t with Kind k and every directory,                  *)
(* Environment::try_from(t) and Environment::try_from(Config::new(k)) end  *)
(* alike: the same files opened in the same order (common.env, then the    *)
(* file of k) with no line skipped, and equal Environments or the same     *)
(* error.                                                                  *)
C10_EntryPointsAgree ==
    /\ (StrLoad /\ request.name \in Tokens) =>
           LET other == EnvironmentTryFromConfig(fs, ConfigNew(LoadKind))
           IN  /\ Res = other.result
               /\ opened = other.opened
               /\ opened[1].path = "common.env"
               /\ \A n \in 1..Len(opened) :
                      \A i \in 1..Len(opened[n].steps) :
                          opened[n].steps[i].did # "skip"
    /\ (ConfigLoad /\ request.entry = "new") =>
           LET other == EnvironmentTryFromStr(fs, KindToString(LoadKind))
           IN  /\ Res = other.result
               /\ opened = other.opened

C10_Witness ==
    /\ StrLoad
    /\ request.name = "dev"
    /\ Res.ok
    /\ Cardinality(DOMAIN Res.val.props) = 2
    /\ Res = EnvironmentTryFromConfig(fs, ConfigNew("Development")).result

====
